---- MODULE Spec2Model ----
(***************************************************************************)
(* Market-data acquisition pipeline of the ETH futures dashboard.          *)
(*                                                                         *)
(*   SpecFetch : one invocation of fetchWithRetry (services/marketService) *)
(*               against relays that may answer, fail, stall or time out.  *)
(*   SpecSnap  : one call of getFullMarketSnapshot, in the sequential      *)
(*               variant (which runs fetchWithRetry six times) and in the  *)
(*               parallel variant (six fetchWithProxyRotator tasks joined  *)
(*               by Promise.all).                                          *)
(***************************************************************************)
EXTENDS Integers, Sequences, FiniteSets, TLC

VARIABLES
    \* ---- fetchWithRetry (src/services/marketService.ts:18-63) ----
    fetchPc,      \* position of the invocation: "idle", "backoff" (await jitter),
                  \* "headers" (await fetch), "body" (await res.text()),
                  \* "returned", "thrown"
    path,         \* which endpoint is asked for: "candles", "books", "ticker"
    retryCount,   \* the retryCount argument
    attempt,      \* the loop variable
    lastError,    \* the lastError local
    timeoutId,    \* TRUE while the 12 s abort timer of the current attempt is armed
    requests,     \* relay index of every fetch() issued so far, in order
    fetchResult,  \* the value returned (data.data) or the error thrown
    backoffMs,    \* the delay of the pending backoff timer in ms, 0 when none
    failLogged    \* whether logCallback was given an "attempt failed" entry

fvars == <<fetchPc, path, retryCount, attempt, lastError, timeoutId, requests,
           fetchResult, backoffMs, failLogged>>

VARIABLES
    \* ---- getFullMarketSnapshot ----
    assembler,    \* "sequential" (src/services/marketService.ts:76-163),
                  \* "parallel" (src/unnamed/part_001:99-127), "none" when unused
    snapPc,       \* "idle", "fetch" (await fetchWithRetry), "jitter" (await jitter),
                  \* "await" (await Promise.all), "returned", "thrown"
    stage,        \* sequential: the upstream call in progress, 1..4 the candle calls
                  \* (loop index i + 1), 5 the order book, 6 the ticker
    snapshots,    \* the snapshots local
    orderBook,    \* the orderBook local
    calls,        \* per upstream call: "notstarted", "inflight", "ok", "failed"
    proxyOf,      \* parallel: per task, the index of the proxy being tried
    slots,        \* parallel: per task, the state of its promise
    snapResult    \* what the caller of getFullMarketSnapshot has received

svars == <<assembler, snapPc, stage, snapshots, orderBook, calls, proxyOf, slots,
           snapResult>>

VARIABLES
    \* ---- App ----
    appVariant,     \* "v1" (src/App.tsx), "v21" (src/unnamed/part_000),
                    \* "v3" (src/services/marketService.ts:179-689), "none" when unused
    marketData,     \* 0 for null, else the cycle whose aggregate is stored
    analysis,       \* 0 for null, else the cycle whose AI result is stored
    loading,
    isAutoRunning,
    error,          \* "none" for null, else the type of the error object
    settings,       \* [wecomWebhook: is a webhook URL set, refreshInterval]
    progress,       \* progress.percentage
    lastLog,        \* the newest entry the component passed to addLog
    timerRef,       \* timerRef.current: 0 for null, else a timer id
    timers,         \* the live interval timers: [id, cb], cb the callback captured
    effectDeps,     \* the dependencies the auto-run effect last ran with
    cycles,         \* the started runs of fetchDataAndAnalyze: [pc, by, webhook]
    nCycles,        \* how many runs got past the loading guard
    finished        \* the run that ended last and how: [cycle, outcome]

avars == <<appVariant, marketData, analysis, loading, isAutoRunning, error, settings,
           progress, lastLog, timerRef, timers, effectDeps, cycles, nCycles, finished>>

VARIABLES
    \* ---- one call of a function that awaits nothing of this program ----
    calcFn,       \* the function called: "flow", "rsi", "ema", "bollinger", "ai";
                  \* "none" when unused
    calcIn,       \* its arguments (for "ai": settings and what the provider answers)
    calcPc,       \* "idle", "returned", "thrown"
    calcOut       \* the value returned

cvars == <<calcFn, calcIn, calcPc, calcOut>>

\* The log panel of the App component (v2.1 and v3)
VARIABLES
    logVariant,   \* "v21", "v3", or "none" when no log panel is studied
    logs,         \* the logs state: the entries on display, oldest first
    nLogs         \* addLog calls made so far; the entry of the n-th call is n

lvars == <<logVariant, logs, nLogs>>

vars == <<fvars, svars, avars, cvars, lvars>>

----------------------------------------------------------------------------
(* Bounds of the model *)

\* retryCount arguments explored by SpecFetch: 0..MaxRetry
MaxRetry == 4

\* runs of fetchDataAndAnalyze explored by SpecApp
MaxCycles == 2

\* interval timer ids available to SpecApp
MaxTimers == 3

\* length of the price series explored by SpecCalc: 1..MaxLen (and two long ones)
MaxLen == 4

\* period arguments explored by SpecCalc: 1..MaxPeriod (and the defaults)
MaxPeriod == 3

\* square roots are rounded down to multiples of 1/SqrtScale
SqrtScale == 10

\* addLog calls explored by SpecLog
MaxLogs == 152

----------------------------------------------------------------------------
(* Program constants *)

\* CORS_PROXIES.length
NumProxies == 3

\* default value of the retryCount parameter
DefaultRetry == 3

\* the backoff before attempt i is jitter(1000 * i)
BackoffBase == 1000

\* jitter adds Math.random() * 500
JitterSpan == 500

\* default value of the period parameter of calculateRSI
RsiPeriod == 14

\* default value of the period parameter of calculateBollinger
BollingerPeriod == 20

----------------------------------------------------------------------------
(* Numbers *)

\* A JavaScript number is modelled by the exact rational it denotes, n/d with
\* d > 0 in lowest terms; rounding to binary64 is not modelled.
Abs(i) == IF i < 0 THEN -i ELSE i

RECURSIVE GCD(_, _)
GCD(a, b) == IF b = 0 THEN a ELSE GCD(b, a % b)

Rat(n, d) ==
    LET s == IF d < 0 THEN -1 ELSE 1
        g == GCD(Abs(n), Abs(d))
    IN [n |-> (s * n) \div g, d |-> (s * d) \div g]

Num(i) == [n |-> i, d |-> 1]

RAdd(a, b) == Rat(a.n * b.d + b.n * a.d, a.d * b.d)
RSub(a, b) == Rat(a.n * b.d - b.n * a.d, a.d * b.d)
RMul(a, b) == Rat(a.n * b.n, a.d * b.d)
\* a / b for b # 0
RDiv(a, b) == Rat(a.n * b.d, a.d * b.n)
RLe(a, b) == a.n * b.d <= b.n * a.d
RLt(a, b) == a.n * b.d < b.n * a.d

\* Math.min, Math.max
RMin(a, b) == IF RLe(a, b) THEN a ELSE b
RMax(a, b) == IF RLe(a, b) THEN b ELSE a

\* A numeric string of the upstream JSON: decimal digits, with or without a
\* fraction ("2345" is Str(<<2,3,4,5>>, <<>>), "7.25" is Str(<<7>>, <<2,5>>)),
\* with or without a minus sign; Empty is the empty string or an absent field.
Str(whole, frac) == [neg |-> FALSE, whole |-> whole, frac |-> frac]
Minus(s) == [s EXCEPT !.neg = TRUE]
Empty == Str(<<>>, <<>>)

\* the value of a digit sequence read as a decimal numeral
DigitsValue(ds) ==
    LET val[i \in 0..Len(ds)] == IF i = 0 THEN 0 ELSE val[i - 1] * 10 + ds[i]
    IN val[Len(ds)]

Pow10(k) ==
    LET p[i \in 0..k] == IF i = 0 THEN 1 ELSE p[i - 1] * 10
    IN p[k]

\* parseInt(s) of a numeric string: the signed digits before the decimal point
ParseInt(s) == (IF s.neg THEN -1 ELSE 1) * DigitsValue(s.whole)

\* parseFloat(s) of a numeric string
ParseFloat(s) ==
    Rat((IF s.neg THEN -1 ELSE 1) * DigitsValue(s.whole \o s.frac), Pow10(Len(s.frac)))

\* parseFloat(field || 0): an absent or empty field counts as 0
ParseFloatOrZero(s) == IF s = Empty THEN Num(0) ELSE ParseFloat(s)

----------------------------------------------------------------------------
(* Values *)

NoError == [attempt |-> -1, kind |-> "none"]

\* what an attempt can be caught with
ErrorKinds == {"network", "abort", "status", "body", "json", "okx"}

Err(a, k) == [attempt |-> a, kind |-> k]

Paths == {"candles", "books", "ticker"}

\* A candle row of the upstream response: [ts, o, h, l, c, vol, ...]; the model
\* keeps the timestamp d[0] and the close d[4].
Row(t, c) == [ts |-> t, close |-> c]

\* data.data of a candle response: undefined, or an array of rows whose fields
\* are numeric strings. OKX lists the newest row first; the last payload lists
\* the oldest first.
CandlePayloads ==
    { [kind |-> "undef", rows |-> <<>>],
      [kind |-> "array", rows |-> <<>>],
      [kind |-> "array", rows |-> <<Row(Str(<<1, 0>>, <<>>), Str(<<7>>, <<5>>)),
                                    Row(Str(<<9>>, <<>>), Str(<<5>>, <<>>))>>],
      [kind |-> "array", rows |-> <<Row(Str(<<3>>, <<>>), Str(<<4>>, <<>>)),
                                    Row(Str(<<2>>, <<>>), Str(<<6>>, <<2, 5>>)),
                                    Row(Str(<<1>>, <<>>), Str(<<5>>, <<>>))>>],
      [kind |-> "array", rows |-> <<Row(Str(<<1>>, <<>>), Str(<<5>>, <<>>)),
                                    Row(Str(<<2>>, <<>>), Str(<<6>>, <<>>))>>] }

\* data.data of an order-book response: undefined, an empty array, or one book.
BookPayloads ==
    { [kind |-> "undef", rows |-> <<>>],
      [kind |-> "array", rows |-> <<>>],
      [kind |-> "array", rows |-> <<[bids |-> 1, asks |-> 1]>>] }

\* a ticker of the OKX response
OkxTicker(vol, open, last) == [vol24h |-> vol, open24h |-> open, last |-> last]

\* the string "100"
H == Str(<<1, 0, 0>>, <<>>)

\* data.data of a ticker response: undefined, an empty array, or one ticker
\* (price unchanged, up 50 %, down 12.5 %, no opening price, no volume).
TickerPayloads ==
    { [kind |-> "undef", rows |-> <<>>],
      [kind |-> "array", rows |-> <<>>],
      [kind |-> "array", rows |-> <<OkxTicker(Str(<<1, 0, 0, 0>>, <<>>), H, H)>>],
      [kind |-> "array", rows |-> <<OkxTicker(Str(<<1, 0, 0, 0>>, <<>>), H, Str(<<1, 5, 0>>, <<>>))>>],
      [kind |-> "array", rows |-> <<OkxTicker(Str(<<8, 0>>, <<5>>), H, Str(<<8, 7>>, <<5>>))>>],
      [kind |-> "array", rows |-> <<OkxTicker(Str(<<1, 0, 0, 0>>, <<>>), Empty, H)>>],
      [kind |-> "array", rows |-> <<OkxTicker(Empty, H, Str(<<4, 0>>, <<>>))>>] }

\* data.data of a body that is not JSON or whose code is not "0"
Unchecked == [kind |-> "unchecked", rows |-> <<>>]

Payloads(p) ==
    CASE p = "candles" -> CandlePayloads
      [] p = "books"   -> BookPayloads
      [] OTHER         -> TickerPayloads

\* The text of a response body: not JSON at all, or a JSON object with the
\* exchange's code field ("0" the string, 0 the number, an error code, or no
\* code at all) and its data field.
Bodies(p) ==
    { [json |-> FALSE, code |-> "", data |-> Unchecked] }
    \cup { [json |-> TRUE, code |-> c, data |-> Unchecked]
             : c \in {"51001", "number 0", "absent"} }
    \cup { [json |-> TRUE, code |-> "0", data |-> d] : d \in Payloads(p) }

----------------------------------------------------------------------------
(* fetchWithRetry *)

\* the loop condition: attempt <= retryCount
MutLoopCondition(a, rc) == a < rc
LoopCondition(a, rc) == a <= rc

\* CORS_PROXIES[attempt % CORS_PROXIES.length]
MutProxyIndex(a) == IF a = 0 THEN 0 ELSE 1 + (a % (NumProxies - 1))
ProxyIndex(a) == a % NumProxies

\* catch (e) { ...; lastError = e; }
MutCaught(prev, e) == IF prev = NoError THEN e ELSE prev
Caught(prev, e) == e

\* throw lastError
MutThrown(le) == [attempt |-> le.attempt, kind |-> "generic"]
Thrown(le) == le

\* clearTimeout(timeoutId) runs as soon as fetch() resolves, before res.text():
\* the timer is no longer armed while the body is read.
MutTimerWhileBody == TRUE
TimerWhileBody == FALSE

\* The checks on a response body (lines 45-56): "ok" when it is returned,
\* otherwise the kind of error it is thrown with.
MutBodyVerdict(b) ==
    IF ~b.json THEN "json"
    ELSE IF b.code \notin {"0", "number 0"} THEN "okx"
    ELSE "ok"
BodyVerdict(b) ==
    IF ~b.json THEN "json"
    ELSE IF b.code # "0" THEN "okx"
    ELSE "ok"

\* Math.random() * 500, in whole ms: a value in [0, 500)
RandomTimes == {0, JitterSpan \div 2, JitterSpan - 1}

\* jitter(ms): the delay given to setTimeout, ms + Math.random() * 500
MutJitter(ms, r) == r
Jitter(ms, r) == ms + r

\* The head of the for loop for attempt a of an invocation with budget rc, the
\* requests issued so far being reqs: leave the loop and throw, wait for the
\* backoff (attempt > 0), or issue the request at once (attempt 0).
LoopHead(a, le, rc, reqs) ==
    IF ~LoopCondition(a, rc)
    THEN /\ fetchPc' = "thrown"
         /\ fetchResult' = Thrown(le)
         /\ attempt' = a
         /\ timeoutId' = FALSE
         /\ requests' = reqs
         /\ backoffMs' = 0
    ELSE IF a > 0
    THEN /\ fetchPc' = "backoff"
         /\ attempt' = a
         /\ timeoutId' = FALSE
         /\ requests' = reqs
         /\ fetchResult' = NoError
         /\ \E r \in RandomTimes : backoffMs' = Jitter(BackoffBase * a, r)
    ELSE /\ fetchPc' = "headers"
         /\ attempt' = a
         /\ timeoutId' = TRUE
         /\ requests' = Append(reqs, ProxyIndex(a))
         /\ fetchResult' = NoError
         /\ backoffMs' = 0

\* the catch block of attempt `attempt`, then attempt++ and the loop head
CatchAndContinue(kind) ==
    LET e == Err(attempt, kind)
        le == Caught(lastError, e)
    IN /\ lastError' = le
       /\ failLogged' = TRUE
       /\ LoopHead(attempt + 1, le, retryCount, requests)
       /\ UNCHANGED <<path, retryCount>>

\* fetchWithRetry(p, log, rc) is called: lastError = null, attempt = 0, first pass
\* through the loop head
MutInvoke(p, rc) ==
    /\ path' = p
    /\ retryCount' = (IF failLogged THEN rc - 1 ELSE rc)
    /\ lastError' = NoError
    /\ UNCHANGED failLogged
    /\ LoopHead(0, NoError, IF failLogged THEN rc - 1 ELSE rc, <<>>)

Invoke(p, rc) ==
    /\ path' = p
    /\ retryCount' = rc
    /\ lastError' = NoError
    /\ UNCHANGED failLogged
    /\ LoopHead(0, NoError, rc, <<>>)

\* the invocation SpecFetch studies
FetchCall ==
    /\ fetchPc = "idle"
    /\ assembler = "none"
    /\ Invoke(path, retryCount)
    /\ UNCHANGED <<svars, avars, cvars, lvars>>

\* await jitter(1000 * attempt) is over: the request of this attempt is issued
BackoffElapses ==
    /\ fetchPc = "backoff"
    /\ fetchPc' = "headers"
    /\ timeoutId' = TRUE
    /\ requests' = Append(requests, ProxyIndex(attempt))
    /\ backoffMs' = 0
    /\ UNCHANGED <<path, retryCount, attempt, lastError, fetchResult, failLogged>>
    /\ UNCHANGED <<svars, avars, cvars, lvars>>

\* the 12 s timer fires: controller.abort() rejects the pending fetch()
TimeoutFires ==
    /\ fetchPc \in {"headers", "body"}
    /\ timeoutId
    /\ CatchAndContinue("abort")
    /\ UNCHANGED <<svars, avars, cvars, lvars>>

\* fetch() rejects (relay unreachable, CORS failure)
FetchRejects ==
    /\ fetchPc = "headers"
    /\ CatchAndContinue("network")
    /\ UNCHANGED <<svars, avars, cvars, lvars>>

\* fetch() resolves with a non-success status: clearTimeout, then throw
StatusNotOk ==
    /\ fetchPc = "headers"
    /\ CatchAndContinue("status")
    /\ UNCHANGED <<svars, avars, cvars, lvars>>

\* fetch() resolves with a success status: clearTimeout, then await res.text()
HeadersArrive ==
    /\ fetchPc = "headers"
    /\ fetchPc' = "body"
    /\ timeoutId' = TimerWhileBody
    /\ UNCHANGED <<path, retryCount, attempt, lastError, requests, fetchResult,
                   backoffMs, failLogged>>
    /\ UNCHANGED <<svars, avars, cvars, lvars>>

\* res.text() rejects (the connection drops while the body is read)
BodyRejects ==
    /\ fetchPc = "body"
    /\ CatchAndContinue("body")
    /\ UNCHANGED <<svars, avars, cvars, lvars>>

\* res.text() resolves with body b: parse and check it, return data.data or throw
MutBodyArrives ==
    /\ fetchPc = "body"
    /\ \E b \in Bodies(path) :
         IF BodyVerdict(b) = "ok"
         THEN /\ fetchPc' = "returned"
              /\ fetchResult' = b.data
              /\ timeoutId' = FALSE
              /\ requests' = Append(requests, ProxyIndex(attempt + 1))
              /\ UNCHANGED <<path, retryCount, attempt, lastError, backoffMs, failLogged>>
         ELSE CatchAndContinue(BodyVerdict(b))
    /\ UNCHANGED <<svars, avars, cvars, lvars>>
BodyArrives ==
    /\ fetchPc = "body"
    /\ \E b \in Bodies(path) :
         IF BodyVerdict(b) = "ok"
         THEN /\ fetchPc' = "returned"
              /\ fetchResult' = b.data
              /\ timeoutId' = FALSE
              /\ UNCHANGED <<path, retryCount, attempt, lastError, requests,
                             backoffMs, failLogged>>
         ELSE CatchAndContinue(BodyVerdict(b))
    /\ UNCHANGED <<svars, avars, cvars, lvars>>

\* the steps of an invocation that the relay does not decide: timers
TimerStep == BackoffElapses \/ TimeoutFires

\* the steps the relay decides
RelayStep == FetchRejects \/ StatusNotOk \/ HeadersArrive \/ BodyRejects \/ BodyArrives

FetchStep == TimerStep \/ RelayStep

FetchDone == fetchPc \in {"returned", "thrown"}

----------------------------------------------------------------------------
(* indicatorService *)

\* s[lo] + ... + s[hi], added pairwise (in exact arithmetic the order of the
\* additions makes no difference)
RECURSIVE SumRange(_, _, _)
SumRange(s, lo, hi) ==
    IF lo > hi THEN Num(0)
    ELSE IF lo = hi THEN s[lo]
    ELSE LET mid == (lo + hi) \div 2
         IN RAdd(SumRange(s, lo, mid), SumRange(s, mid + 1, hi))

\* reduce((a, b) => a + b, 0)
SeqSum(s) == SumRange(s, 1, Len(s))

\* the largest integer whose square is at most x, for x >= 0
RECURSIVE ISqrtFrom(_, _)
ISqrtFrom(x, k) == IF (k + 1) * (k + 1) > x THEN k ELSE ISqrtFrom(x, k + 1)

\* Math.sqrt(r) for r >= 0, rounded down to a multiple of 1/SqrtScale (binary64
\* rounds it to the nearest representable number)
Sqrt(r) == Rat(ISqrtFrom((r.n * SqrtScale * SqrtScale) \div r.d, 0), SqrtScale)

\* calculateEMA(data, period), data non-empty
MutCalculateEMA(data, period) ==
    IF Len(data) < period THEN data[Len(data)]
    ELSE LET k == RDiv(Num(2), Num(period + 1))
             ema[i \in 1..Len(data)] ==
                 IF i = 1 THEN data[1]
                 ELSE RAdd(RMul(data[i], k), RMul(ema[i - 1], Num(1)))
         IN ema[Len(data)]
calculateEMA(data, period) ==
    IF Len(data) < period THEN data[Len(data)]
    ELSE LET k == RDiv(Num(2), Num(period + 1))
             ema[i \in 1..Len(data)] ==
                 IF i = 1 THEN data[1]
                 ELSE RAdd(RMul(data[i], k), RMul(ema[i - 1], RSub(Num(1), k)))
         IN ema[Len(data)]

\* the loop of calculateRSI: gains and losses over the last period differences
\* (i = data.length - period .. data.length - 1, counted from 0)
GainsLosses(data, period) ==
    LET n == Len(data)
        acc[i \in (n - period)..n] ==
            IF i = n - period THEN [gains |-> Num(0), losses |-> Num(0)]
            ELSE LET diff == RSub(data[i], data[i - 1])
                 IN IF RLe(Num(0), diff)
                    THEN [acc[i - 1] EXCEPT !.gains = RAdd(@, diff)]
                    ELSE [acc[i - 1] EXCEPT !.losses = RSub(@, diff)]
    IN acc[n]

\* calculateRSI(data, period), period >= 1
MutCalculateRSI(data, period) ==
    IF Len(data) < period + 1 THEN Num(50)
    ELSE LET gl == GainsLosses(data, period)
             avgGain == RDiv(gl.gains, Num(period))
             avgLoss == RDiv(gl.losses, Num(period))
         IN IF avgLoss = Num(0) THEN Num(100)
            ELSE RSub(Num(100), RDiv(Num(100), RDiv(avgGain, avgLoss)))
calculateRSI(data, period) ==
    IF Len(data) < period + 1 THEN Num(50)
    ELSE LET gl == GainsLosses(data, period)
             avgGain == RDiv(gl.gains, Num(period))
             avgLoss == RDiv(gl.losses, Num(period))
         IN IF avgLoss = Num(0) THEN Num(100)
            ELSE LET rs == RDiv(avgGain, avgLoss)
                 IN RSub(Num(100), RDiv(Num(100), RAdd(Num(1), rs)))

\* data.slice(-period)
LastN(data, period) ==
    SubSeq(data, IF Len(data) > period THEN Len(data) - period + 1 ELSE 1, Len(data))

\* calculateBollinger(data, period)
MutCalculateBollinger(data, period) ==
    LET lastN == LastN(data, period)
        mean == RDiv(SeqSum(lastN), Num(period))
        sq == [i \in 1..Len(lastN) |-> RMul(RSub(lastN[i], mean), RSub(lastN[i], mean))]
        stdDev == Sqrt(RDiv(SeqSum(sq), Num(period)))
    IN [upper |-> RAdd(mean, RMul(stdDev, Num(2))),
        middle |-> mean,
        lower |-> RSub(mean, stdDev)]
calculateBollinger(data, period) ==
    LET lastN == LastN(data, period)
        mean == RDiv(SeqSum(lastN), Num(period))
        sq == [i \in 1..Len(lastN) |-> RMul(RSub(lastN[i], mean), RSub(lastN[i], mean))]
        stdDev == Sqrt(RDiv(SeqSum(sq), Num(period)))
    IN [upper |-> RAdd(mean, RMul(stdDev, Num(2))),
        middle |-> mean,
        lower |-> RSub(mean, RMul(stdDev, Num(2)))]

\* calculateMACD(data): the signal line is macdLine * 0.9
calculateMACD(data) ==
    LET ema12 == calculateEMA(data, 12)
        ema26 == calculateEMA(data, 26)
        macdLine == RSub(ema12, ema26)
        signalLine == RMul(macdLine, Rat(9, 10))
    IN [macd |-> macdLine, signal |-> signalLine,
        histogram |-> RSub(macdLine, signalLine)]

\* klines.map(k => k.close)
Closes(klines) == [j \in 1..Len(klines) |-> klines[j].close]

\* getIndicators(klines)
MutGetIndicators(klines) ==
    LET closes == Closes(SubSeq(klines, 1, 1))
    IN [rsi |-> calculateRSI(closes, RsiPeriod),
        ema20 |-> calculateEMA(closes, 20),
        ema50 |-> calculateEMA(closes, 50),
        macd |-> calculateMACD(closes),
        bollinger |-> calculateBollinger(closes, BollingerPeriod)]
getIndicators(klines) ==
    LET closes == Closes(klines)
    IN [rsi |-> calculateRSI(closes, RsiPeriod),
        ema20 |-> calculateEMA(closes, 20),
        ema50 |-> calculateEMA(closes, 50),
        macd |-> calculateMACD(closes),
        bollinger |-> calculateBollinger(closes, BollingerPeriod)]

----------------------------------------------------------------------------
(* getFullMarketSnapshot: values *)

\* const timeframes = ['15m', '1h', '4h', '1d']
Timeframes == <<"15m", "1h", "4h", "1d">>

\* the upstream calls of one cycle: one candle call per timeframe, then the
\* order book, then the ticker
BookCall == Len(Timeframes) + 1
TickerCall == Len(Timeframes) + 2
Calls == 1..TickerCall

PathOf(k) ==
    IF k <= Len(Timeframes) THEN "candles"
    ELSE IF k = BookCall THEN "books" ELSE "ticker"

Reverse(s) == [j \in 1..Len(s) |-> s[Len(s) + 1 - j]]

\* klinesData.map(d => ({timestamp: parseInt(d[0]), ..., close: parseFloat(d[4]), ...}))
ToKlines(rows) ==
    [j \in 1..Len(rows) |->
        [timestamp |-> ParseInt(rows[j].ts), close |-> ParseFloat(rows[j].close)]]

\* the sequential variant reverses the mapped rows (OKX lists the newest first)
MutNormalizeOkx(rows) == ToKlines(rows)
NormalizeOkx(rows) == Reverse(ToKlines(rows))

\* fetchKlines of the parallel variant: data.map(d => ({timestamp: d[0], ...,
\* close: parseFloat(d[4]), ...})); Binance sends the open time as a number and
\* lists the oldest row first
BinanceKlines(rows) ==
    [j \in 1..Len(rows) |->
        [timestamp |-> rows[j].ts, close |-> ParseFloat(rows[j].close)]]

\* { timeframe: tf, price: klines[klines.length - 1].close, kline: klines, ... }
MutSnapshot(tf, klines) ==
    [timeframe |-> tf, price |-> klines[1].close, kline |-> klines,
     indicators |-> getIndicators(klines)]
Snapshot(tf, klines) ==
    [timeframe |-> tf, price |-> klines[Len(klines)].close, kline |-> klines,
     indicators |-> getIndicators(klines)]

\* snapshots.push(x)
MutPush(s, x) == <<x>> \o s
Push(s, x) == Append(s, x)

\* the catch block of getFullMarketSnapshot rethrows whatever call k failed with
MutRethrows(k) == k # BookCall
Rethrows(k) == TRUE

\* const buyRatio = 0.5 + (priceChange / 100);
\* const buyVol = totalVol * Math.min(Math.max(buyRatio, 0.3), 0.7);
\* const sellVol = totalVol - buyVol;
\* { netInflow: buyVol - sellVol, buyVolume: buyVol, sellVolume: sellVol }
MutFlowEstimate(totalVol, priceChange) ==
    LET buyRatio == RAdd(Rat(1, 2), RDiv(priceChange, Num(100)))
        buyVol == RMul(totalVol, RMin(RMax(buyRatio, Rat(3, 10)), Rat(7, 10)))
        sellVol == RSub(totalVol, buyVol)
    IN [netInflow |-> buyVol, buyVolume |-> buyVol, sellVolume |-> sellVol]
MutClampFlowEstimate(totalVol, priceChange) ==
    LET buyRatio == RAdd(Rat(1, 2), RDiv(priceChange, Num(100)))
        buyVol == RMul(totalVol, RMax(buyRatio, Rat(3, 10)))
        sellVol == RSub(totalVol, buyVol)
    IN [netInflow |-> RSub(buyVol, sellVol), buyVolume |-> buyVol, sellVolume |-> sellVol]
FlowEstimate(totalVol, priceChange) ==
    LET buyRatio == RAdd(Rat(1, 2), RDiv(priceChange, Num(100)))
        buyVol == RMul(totalVol, RMin(RMax(buyRatio, Rat(3, 10)), Rat(7, 10)))
        sellVol == RSub(totalVol, buyVol)
    IN [netInflow |-> RSub(buyVol, sellVol), buyVolume |-> buyVol, sellVolume |-> sellVol]

\* sequential variant: const priceChange = open > 0 ? ((last - open) / open) * 100 : 0
PriceChange(open, last) ==
    IF RLt(Num(0), open) THEN RMul(RDiv(RSub(last, open), open), Num(100)) ELSE Num(0)

\* sequential variant: the flow estimate of a ticker
InflowOkx(ticker) ==
    LET vol24h == ParseFloatOrZero(ticker.vol24h)
        open == ParseFloatOrZero(ticker.open24h)
        last == ParseFloatOrZero(ticker.last)
    IN FlowEstimate(vol24h, PriceChange(open, last))

\* parallel variant: fetchAggregatedInflow applied to the 24 h ticker
InflowBinance(data) ==
    FlowEstimate(ParseFloatOrZero(data.volume), ParseFloatOrZero(data.priceChangePercent))

NoBook == [bids |-> 0, asks |-> 0]
NoInflow == [netInflow |-> Num(0), buyVolume |-> Num(0), sellVolume |-> Num(0)]
NoAggregate ==
    [kind |-> "none", snapshots |-> <<>>, orderBook |-> NoBook, inflow |-> NoInflow]

\* { snapshots, orderBook, inflow, timestamp }
Aggregate(snaps, book, inflow) ==
    [kind |-> "aggregate", snapshots |-> snaps, orderBook |-> book, inflow |-> inflow]

\* what a caller whose call threw has in hand
Failure ==
    [kind |-> "error", snapshots |-> <<>>, orderBook |-> NoBook, inflow |-> NoInflow]

\* (books[0]?.bids || []), (books[0]?.asks || [])
BookOf(rows) == IF Len(rows) = 0 THEN NoBook ELSE rows[1]

ResetFetch ==
    /\ fetchPc' = "idle"
    /\ attempt' = 0
    /\ lastError' = NoError
    /\ timeoutId' = FALSE
    /\ requests' = <<>>
    /\ fetchResult' = NoError
    /\ UNCHANGED <<path, retryCount, backoffMs, failLogged>>

----------------------------------------------------------------------------
(* getFullMarketSnapshot, sequential variant *)

\* the awaited fetchWithRetry of call k starts
StartCall(k) ==
    /\ stage' = k
    /\ calls' = [calls EXCEPT ![k] = "inflight"]
    /\ snapPc' = "fetch"
    /\ Invoke(PathOf(k), DefaultRetry)

\* an exception inside the try block: catch (e) { addLog(...); throw e; }
ThrowOut ==
    /\ snapPc' = "thrown"
    /\ snapResult' = Failure

\* getFullMarketSnapshot(symbol, onProgress, addLog) is called
SeqCall ==
    /\ assembler = "sequential"
    /\ snapPc = "idle"
    /\ StartCall(1)
    /\ UNCHANGED <<assembler, snapshots, orderBook, proxyOf, slots, snapResult>>
    /\ UNCHANGED <<avars, cvars, lvars>>

\* fetchWithRetry of a candle call returned: check, normalize, push, await jitter(600)
CandlesFetched ==
    /\ snapPc = "fetch"
    /\ fetchPc = "returned"
    /\ stage <= Len(Timeframes)
    /\ calls' = [calls EXCEPT ![stage] = "ok"]
    /\ IF fetchResult.kind # "array" \/ Len(fetchResult.rows) = 0
       THEN \* not an array: thrown at line 98; no row: klines[-1].close throws
            /\ ThrowOut
            /\ UNCHANGED snapshots
       ELSE /\ snapshots' = Push(snapshots,
                                 Snapshot(Timeframes[stage], NormalizeOkx(fetchResult.rows)))
            /\ snapPc' = "jitter"
            /\ UNCHANGED snapResult
    /\ ResetFetch
    /\ UNCHANGED <<assembler, stage, orderBook, proxyOf, slots>>
    /\ UNCHANGED <<avars, cvars, lvars>>

\* fetchWithRetry of the order-book call returned: build orderBook, await jitter(400)
BooksFetched ==
    /\ snapPc = "fetch"
    /\ fetchPc = "returned"
    /\ stage = BookCall
    /\ calls' = [calls EXCEPT ![stage] = "ok"]
    /\ IF fetchResult.kind # "array"
       THEN \* books is undefined: books[0] throws
            /\ ThrowOut
            /\ UNCHANGED orderBook
       ELSE /\ orderBook' = BookOf(fetchResult.rows)
            /\ snapPc' = "jitter"
            /\ UNCHANGED snapResult
    /\ ResetFetch
    /\ UNCHANGED <<assembler, stage, snapshots, proxyOf, slots>>
    /\ UNCHANGED <<avars, cvars, lvars>>

\* fetchWithRetry of the ticker call returned: compute the flow, return the aggregate
TickerFetched ==
    /\ snapPc = "fetch"
    /\ fetchPc = "returned"
    /\ stage = TickerCall
    /\ calls' = [calls EXCEPT ![stage] = "ok"]
    /\ IF fetchResult.kind # "array" \/ Len(fetchResult.rows) = 0
       THEN \* tickerArr[0] or ticker.vol24h throws
            ThrowOut
       ELSE /\ snapPc' = "returned"
            /\ snapResult' = Aggregate(snapshots, orderBook,
                                       InflowOkx(fetchResult.rows[1]))
    /\ ResetFetch
    /\ UNCHANGED <<assembler, stage, snapshots, orderBook, proxyOf, slots>>
    /\ UNCHANGED <<avars, cvars, lvars>>

\* fetchWithRetry threw: the catch block logs and rethrows
FetchThrew ==
    /\ snapPc = "fetch"
    /\ fetchPc = "thrown"
    /\ calls' = [calls EXCEPT ![stage] = "failed"]
    /\ IF Rethrows(stage)
       THEN ThrowOut
       ELSE /\ snapPc' = "jitter"
            /\ UNCHANGED snapResult
    /\ ResetFetch
    /\ UNCHANGED <<assembler, stage, snapshots, orderBook, proxyOf, slots>>
    /\ UNCHANGED <<avars, cvars, lvars>>

\* await jitter(600) / jitter(400) is over: the next upstream call starts
JitterElapses ==
    /\ snapPc = "jitter"
    /\ StartCall(stage + 1)
    /\ UNCHANGED <<assembler, snapshots, orderBook, proxyOf, slots, snapResult>>
    /\ UNCHANGED <<avars, cvars, lvars>>

----------------------------------------------------------------------------
(* getFullMarketSnapshot, parallel variant (fetchWithProxyRotator tasks) *)

Pending == [state |-> "pending", value |-> NoBook]
Rejected == [state |-> "rejected", value |-> NoBook]
Fulfilled(v) == [state |-> "fulfilled", value |-> v]

\* the 24 h ticker of the Binance response
BinanceTicker(vol, pct) == [volume |-> vol, priceChangePercent |-> pct]

\* what JSON.parse(text) of a relay's answer can be, per task: rows listed oldest
\* first, an empty array or a non-array for klines; an object for the depth; an
\* object or null for the 24 h ticker
RelayAnswers(k) ==
    IF k <= Len(Timeframes)
    THEN { [kind |-> "object", rows |-> <<>>],
           [kind |-> "array", rows |-> <<>>],
           [kind |-> "array", rows |-> <<Row(1, Str(<<5>>, <<>>)),
                                         Row(2, Str(<<7>>, <<5>>))>>] }
    ELSE IF k = BookCall
    THEN { [kind |-> "object", rows |-> <<[bids |-> 1, asks |-> 1]>>] }
    ELSE { [kind |-> "object", rows |-> <<BinanceTicker(Str(<<1, 0, 0, 0>>, <<>>),
                                                        Str(<<0>>, <<>>))>>],
           [kind |-> "object", rows |-> <<BinanceTicker(Str(<<1, 0, 0, 0>>, <<>>),
                                                        Str(<<5, 0>>, <<>>))>>],
           [kind |-> "object", rows |-> <<BinanceTicker(Str(<<8, 0>>, <<5>>),
                                                        Minus(Str(<<1, 2>>, <<5>>)))>>],
           [kind |-> "object", rows |-> <<BinanceTicker(Empty, Minus(Str(<<4, 0>>, <<>>)))>>],
           [kind |-> "null", rows |-> <<>>] }

\* The async function of task k applied to what fetchWithProxyRotator returned:
\* fetchKlines and the snapshot builder (k <= 4), fetchOrderBook, fetchAggregatedInflow.
TaskOutcome(k, d) ==
    IF k <= Len(Timeframes)
    THEN IF d.kind # "array" \/ Len(d.rows) = 0
         THEN Rejected   \* not an array: thrown; no row: klines[-1].close throws
         ELSE Fulfilled(Snapshot(Timeframes[k], BinanceKlines(d.rows)))
    ELSE IF k = BookCall
    THEN Fulfilled(d.rows[1])
    ELSE IF d.kind = "null"
    THEN Rejected        \* data.volume throws
    ELSE Fulfilled(InflowBinance(d.rows[1]))

\* Promise.all over the tasks ks: its values, in the order of ks whatever the
\* order of completion
PromiseAllValues(sl, n) == [j \in 1..n |-> sl[j].value]

AllFulfilled(sl) == \A k \in Calls : sl[k].state = "fulfilled"

\* getFullMarketSnapshot(symbol) is called: the six tasks start together
ParCall ==
    /\ assembler = "parallel"
    /\ snapPc = "idle"
    /\ snapPc' = "await"
    /\ calls' = [k \in Calls |-> "inflight"]
    /\ proxyOf' = [k \in Calls |-> 0]
    /\ slots' = [k \in Calls |-> Pending]
    /\ UNCHANGED <<assembler, stage, snapshots, orderBook, snapResult>>
    /\ UNCHANGED <<fvars, avars, cvars, lvars>>

\* the promise of task k settles as o: Promise.all rejects on the first rejection
\* and resolves when the last task is fulfilled; the call throws or returns then
Settle(k, o) ==
    LET sl == [slots EXCEPT ![k] = o]
    IN /\ slots' = sl
       /\ IF snapPc # "await"
          THEN UNCHANGED <<snapPc, snapResult, snapshots, orderBook>>
          ELSE IF o.state = "rejected"
          THEN /\ ThrowOut
               /\ UNCHANGED <<snapshots, orderBook>>
          ELSE IF AllFulfilled(sl)
          THEN /\ snapPc' = "returned"
               /\ snapshots' = PromiseAllValues(sl, Len(Timeframes))
               /\ orderBook' = sl[BookCall].value
               /\ snapResult' = Aggregate(snapshots', orderBook', sl[TickerCall].value)
          ELSE UNCHANGED <<snapPc, snapResult, snapshots, orderBook>>

\* one proxy of task k fails (rejected fetch, timeout, bad status, no JSON): the
\* loop goes on to the next proxy, or throws after the last one
ProxyFails(k) ==
    /\ assembler = "parallel"
    /\ calls[k] = "inflight"
    /\ IF proxyOf[k] + 1 < NumProxies
       THEN /\ proxyOf' = [proxyOf EXCEPT ![k] = @ + 1]
            /\ UNCHANGED <<calls, slots, snapPc, snapResult, snapshots, orderBook>>
       ELSE /\ calls' = [calls EXCEPT ![k] = "failed"]
            /\ Settle(k, Rejected)
            /\ proxyOf' = [proxyOf EXCEPT ![k] = 0]   \* the loop is left
    /\ UNCHANGED <<assembler, stage>>
    /\ UNCHANGED <<fvars, avars, cvars, lvars>>

\* one proxy of task k answers with JSON: fetchWithProxyRotator returns it
ProxyAnswers(k) ==
    /\ assembler = "parallel"
    /\ calls[k] = "inflight"
    /\ calls' = [calls EXCEPT ![k] = "ok"]
    /\ \E d \in RelayAnswers(k) : Settle(k, TaskOutcome(k, d))
    /\ proxyOf' = [proxyOf EXCEPT ![k] = 0]           \* the loop is left
    /\ UNCHANGED <<assembler, stage>>
    /\ UNCHANGED <<fvars, avars, cvars, lvars>>

----------------------------------------------------------------------------
(* App: values *)

CycleIds == 1..MaxCycles
TimerIds == 1..MaxTimers

\* The settings object: whether a webhook URL is set, and its identity (every
\* setSettings call stores a new object, rev tells it from the previous one).
SettingsSet == [wecomWebhook : BOOLEAN, rev : {0, 1}]

\* whether the variant keeps a log panel (addLog)
HasLogs(v) == v # "v1"

\* fetchDataAndAnalyze = useCallback(..., deps): the callback of a render, known
\* by what it captured. Only v3 has loading among the dependencies (and reads it).
Callback(v, ld, st) == [loading |-> IF v = "v3" THEN ld ELSE FALSE, settings |-> st]

CurrentCb == Callback(appVariant, loading, settings)

\* [isAutoRunning, fetchDataAndAnalyze, settings.refreshInterval, addLog]
\* (a new refreshInterval or addLog never comes without a new callback)
CurrentDeps == [auto |-> isAutoRunning, cb |-> CurrentCb]

\* a committed render changed a dependency of the auto-run effect, which has not
\* run yet; React flushes it before any other task
EffectPending == effectDeps # CurrentDeps

NoCycle == [pc |-> "idle", by |-> "none", webhook |-> FALSE]
DoneCycle == [pc |-> "done", by |-> "none", webhook |-> FALSE]
NoneFinished == [cycle |-> 0, outcome |-> "none"]

InFlight == {c \in CycleIds : cycles[c].pc \in {"market", "ai", "webhook"}}

\* if (loading) return;  -- first line of fetchDataAndAnalyze, v3 only
Guarded(v, capturedLoading) == v = "v3" /\ capturedLoading

\* the cleanup of the auto-run effect clears the interval timerRef.current names
MutCleanupClears(v) == FALSE
CleanupClears(v) == TRUE

\* The error the outer catch stores for a failure in the given phase: v1 tags it
\* with the phase, v2.1 and v3 store type 'critical'.
CatchError(v, phase) == IF v = "v1" THEN phase ELSE "critical"

\* The outer catch block: what it leaves in error, marketData and analysis.
MutCatchClearsAnalysis(v, phase) ==
    [error |-> CatchError(v, phase), marketData |-> marketData, analysis |-> 0]
MutCatchClearsData(v, phase) ==
    [error |-> CatchError(v, phase), marketData |-> 0, analysis |-> analysis]
Catch(v, phase) ==
    [error |-> CatchError(v, phase), marketData |-> marketData, analysis |-> analysis]

\* The catch around sendToWeCom: v1 stores a webhook-typed notice, v2.1 and v3
\* only log a warning; none of them rethrows.
MutWebhookCatch(v, err) == "critical"
WebhookCatch(v, err) == IF v = "v1" THEN "webhook" ELSE err

----------------------------------------------------------------------------
(* App: fetchDataAndAnalyze *)

\* fetchDataAndAnalyze() is called through the callback cb: up to the await of
\* getFullMarketSnapshot
fetchDataAndAnalyze(cb, by) ==
    IF Guarded(appVariant, cb.loading)
    THEN UNCHANGED <<cycles, nCycles, loading, error, progress, finished>>
    ELSE /\ nCycles < MaxCycles
         /\ UNCHANGED finished
         /\ nCycles' = nCycles + 1
         /\ cycles' = [cycles EXCEPT ![nCycles + 1] =
                          [pc |-> "market", by |-> by,
                           webhook |-> cb.settings.wecomWebhook]]
         /\ loading' = TRUE
         /\ error' = "none"
         /\ progress' = IF HasLogs(appVariant) THEN 5 ELSE progress

\* finally { setLoading(false); setProgress({... percentage: 0}) }
Finally(c, outcome) ==
    /\ cycles' = [cycles EXCEPT ![c] = DoneCycle]
    /\ finished' = [cycle |-> c, outcome |-> outcome]
    /\ loading' = FALSE
    /\ progress' = 0
    /\ UNCHANGED nCycles

Log(entry) == lastLog' = IF HasLogs(appVariant) THEN entry ELSE lastLog

\* the "run now" button (disabled while loading)
ManualClick ==
    /\ appVariant # "none"
    /\ ~EffectPending
    /\ ~loading
    /\ fetchDataAndAnalyze(CurrentCb, "manual")
    /\ UNCHANGED <<appVariant, marketData, analysis, isAutoRunning, settings, lastLog,
                   timerRef, timers, effectDeps>>
    /\ UNCHANGED <<fvars, svars, cvars, lvars>>

\* await getFullMarketSnapshot resolves: setMarketData, then runAIAnalysis is called
MutMarketResolves(c) ==
    /\ ~EffectPending
    /\ cycles[c].pc = "market"
    /\ marketData' = marketData
    /\ progress' = IF HasLogs(appVariant) THEN 96 ELSE progress
    /\ Log("ai_call")
    /\ cycles' = [cycles EXCEPT ![c].pc = "ai"]
    /\ UNCHANGED <<appVariant, analysis, loading, isAutoRunning, error, settings,
                   timerRef, timers, effectDeps, nCycles, finished>>
    /\ UNCHANGED <<fvars, svars, cvars, lvars>>
MarketResolves(c) ==
    /\ ~EffectPending
    /\ cycles[c].pc = "market"
    /\ marketData' = c
    /\ progress' = IF HasLogs(appVariant) THEN 96 ELSE progress
    /\ Log("ai_call")
    /\ cycles' = [cycles EXCEPT ![c].pc = "ai"]
    /\ UNCHANGED <<appVariant, analysis, loading, isAutoRunning, error, settings,
                   timerRef, timers, effectDeps, nCycles, finished>>
    /\ UNCHANGED <<fvars, svars, cvars, lvars>>

\* await getFullMarketSnapshot rejects: catch, finally
MarketRejects(c) ==
    /\ ~EffectPending
    /\ cycles[c].pc = "market"
    /\ LET r == Catch(appVariant, "market")
       IN /\ error' = r.error
          /\ marketData' = r.marketData
          /\ analysis' = r.analysis
    /\ Log("fatal")
    /\ Finally(c, "market_failed")
    /\ UNCHANGED <<appVariant, isAutoRunning, settings, timerRef, timers, effectDeps>>
    /\ UNCHANGED <<fvars, svars, cvars, lvars>>

\* await runAIAnalysis resolves: setAnalysis; then the webhook post if a URL is
\* set, else finally
AIResolves(c) ==
    /\ ~EffectPending
    /\ cycles[c].pc = "ai"
    /\ analysis' = c
    /\ IF cycles[c].webhook
       THEN /\ cycles' = [cycles EXCEPT ![c].pc = "webhook"]
            /\ Log("webhook_try")
            /\ UNCHANGED <<loading, progress, nCycles, finished>>
       ELSE /\ Finally(c, "ok")
            /\ Log("ai_ok")
    /\ UNCHANGED <<appVariant, marketData, isAutoRunning, error, settings,
                   timerRef, timers, effectDeps>>
    /\ UNCHANGED <<fvars, svars, cvars, lvars>>

\* await runAIAnalysis rejects: catch, finally
AIRejects(c) ==
    /\ ~EffectPending
    /\ cycles[c].pc = "ai"
    /\ LET r == Catch(appVariant, "ai")
       IN /\ error' = r.error
          /\ marketData' = r.marketData
          /\ analysis' = r.analysis
    /\ Log("fatal")
    /\ Finally(c, "ai_failed")
    /\ UNCHANGED <<appVariant, isAutoRunning, settings, timerRef, timers, effectDeps>>
    /\ UNCHANGED <<fvars, svars, cvars, lvars>>

\* await sendToWeCom resolves: finally
WebhookResolves(c) ==
    /\ ~EffectPending
    /\ cycles[c].pc = "webhook"
    /\ Log("webhook_ok")
    /\ Finally(c, "ok")
    /\ UNCHANGED <<appVariant, marketData, analysis, isAutoRunning, error, settings,
                   timerRef, timers, effectDeps>>
    /\ UNCHANGED <<fvars, svars, cvars, lvars>>

\* await sendToWeCom rejects (CORS, bad status): the inner catch, then finally
WebhookRejects(c) ==
    /\ ~EffectPending
    /\ cycles[c].pc = "webhook"
    /\ error' = WebhookCatch(appVariant, error)
    /\ Log("webhook_warn")
    /\ Finally(c, "webhook_failed")
    /\ UNCHANGED <<appVariant, marketData, analysis, isAutoRunning, settings,
                   timerRef, timers, effectDeps>>
    /\ UNCHANGED <<fvars, svars, cvars, lvars>>

----------------------------------------------------------------------------
(* App: auto-run *)

\* the auto-run button: setIsAutoRunning(!isAutoRunning)
ToggleAutoRun ==
    /\ appVariant # "none"
    /\ ~EffectPending
    /\ isAutoRunning' = ~isAutoRunning
    /\ UNCHANGED <<appVariant, marketData, analysis, loading, error, settings, progress,
                   lastLog, timerRef, timers, effectDeps, cycles, nCycles, finished>>
    /\ UNCHANGED <<fvars, svars, cvars, lvars>>

\* a settings control: setSettings({...settings, field: value})
ChangeSettings ==
    /\ appVariant # "none"
    /\ ~EffectPending
    /\ \E w \in BOOLEAN : settings' = [wecomWebhook |-> w, rev |-> 1 - settings.rev]
    /\ UNCHANGED <<appVariant, marketData, analysis, loading, isAutoRunning, error,
                   progress, lastLog, timerRef, timers, effectDeps, cycles, nCycles,
                   finished>>
    /\ UNCHANGED <<fvars, svars, cvars, lvars>>

\* setInterval returns an id never used before
FreshId(live, ref) ==
    CHOOSE id \in TimerIds :
        /\ id \notin {t.id : t \in live} \cup {ref}
        /\ \A other \in TimerIds :
              other \notin {t.id : t \in live} \cup {ref} => id <= other

\* The auto-run effect runs again: first the cleanup of its previous run, then
\* its body with the callback of the current render.
RunEffect ==
    /\ appVariant # "none"
    /\ EffectPending
    /\ LET cleared == IF CleanupClears(appVariant) /\ timerRef # 0
                      THEN {t \in timers : t.id # timerRef} ELSE timers
           \* only v1's cleanup also sets timerRef.current = null
           ref == IF appVariant = "v1" THEN 0 ELSE timerRef
       IN IF isAutoRunning
          THEN /\ \E id \in TimerIds : id \notin {t.id : t \in cleared} \cup {ref}
               /\ Log("auto_on")
               /\ fetchDataAndAnalyze(CurrentCb, "effect")
               /\ timerRef' = FreshId(cleared, ref)
               /\ timers' = cleared \cup {[id |-> timerRef', cb |-> CurrentCb]}
          ELSE /\ timers' = {t \in cleared : t.id # ref}
               /\ timerRef' = 0
               /\ lastLog' = IF ref # 0 /\ HasLogs(appVariant) THEN "auto_off" ELSE lastLog
               /\ UNCHANGED <<cycles, nCycles, loading, error, progress, finished>>
    /\ effectDeps' = CurrentDeps
    /\ UNCHANGED <<appVariant, marketData, analysis, isAutoRunning, settings>>
    /\ UNCHANGED <<fvars, svars, cvars, lvars>>

\* an interval timer fires: its callback calls the fetchDataAndAnalyze it captured
TimerFires ==
    /\ ~EffectPending
    /\ \E t \in timers :
         /\ Log("timer")
         /\ fetchDataAndAnalyze(t.cb, "timer")
    /\ UNCHANGED <<appVariant, marketData, analysis, isAutoRunning, settings,
                   timerRef, timers, effectDeps>>
    /\ UNCHANGED <<fvars, svars, cvars, lvars>>

----------------------------------------------------------------------------
(* aiService *)

\* A JSON value an AI provider can send as its answer: null, a string, or an
\* object of which the model keeps the fields of AIAnalysis.
Strategy(present, action, fields) ==
    [present |-> present, action |-> action, fields |-> fields]
StrategyFields == {"leverage", "entry", "tp", "sl", "validity"}
JsonObject(sen, ana, str) ==
    [type |-> "object", sentiment |-> sen, analysis |-> ana, strategy |-> str]
JsonOther(type) ==
    [type |-> type, sentiment |-> "absent", analysis |-> "absent",
     strategy |-> Strategy(FALSE, "absent", {})]

JsonValues ==
    { JsonOther("null"),
      JsonOther("string"),
      JsonObject("absent", "absent", Strategy(FALSE, "absent", {})),
      JsonObject("Strong Buy", "string", Strategy(TRUE, "LONG", StrategyFields)),
      JsonObject("Bearish", "string", Strategy(TRUE, "SHORT", {"leverage", "entry"})),
      JsonObject("Bullish", "string", Strategy(TRUE, "LONG", StrategyFields)),
      JsonObject("Neutral", "string", Strategy(TRUE, "WAIT", StrategyFields)) }

\* The text of an answer: empty, prose, or the serialization of a JSON value,
\* bare or wrapped in a ```json fence.
Texts ==
    { [kind |-> "empty", fenced |-> FALSE, value |-> JsonOther("null")],
      [kind |-> "prose", fenced |-> FALSE, value |-> JsonOther("null")] }
    \cup [kind : {"json"}, fenced : BOOLEAN, value : JsonValues]

\* JSON.parse(text): throws unless the text is the serialization of a value
JsonParse(text) ==
    IF text.kind = "json" /\ ~text.fenced
    THEN [pc |-> "returned", value |-> text.value]
    ELSE [pc |-> "thrown", value |-> JsonOther("null")]

AiThrown == [pc |-> "thrown", value |-> JsonOther("null")]

\* What a provider does with one request: the request fails, the provider
\* answers with an error object, or it answers with a text.
Answers ==
    [transport : {"rejects"}, error : {FALSE}, text : {CHOOSE t \in Texts : t.kind = "empty"}]
    \cup [transport : {"ok"}, error : {TRUE}, text : {CHOOSE t \in Texts : t.kind = "empty"}]
    \cup [transport : {"ok"}, error : {FALSE}, text : Texts]

\* analyzeWithGemini: response.text?.trim(); throw if empty; JSON.parse
analyzeWithGemini(answer) ==
    IF answer.transport = "rejects" \/ answer.error THEN AiThrown
    ELSE IF answer.text.kind = "empty" THEN AiThrown
    ELSE JsonParse(answer.text)

\* analyzeWithOpenAI: throw without key; throw on data.error;
\* JSON.parse(data.choices[0].message.content)
analyzeWithOpenAI(answer, apiKey) ==
    IF ~apiKey THEN AiThrown
    ELSE IF answer.transport = "rejects" \/ answer.error THEN AiThrown
    ELSE JsonParse(answer.text)

\* analyzeWithPoe: as analyzeWithOpenAI, after removing a ```json fence
analyzeWithPoe(answer, apiKey) ==
    IF ~apiKey THEN AiThrown
    ELSE IF answer.transport = "rejects" \/ answer.error THEN AiThrown
    ELSE JsonParse([answer.text EXCEPT !.fenced = FALSE])

AIModelTypes == {"GEMINI", "OPENAI", "POE"}

\* runAIAnalysis(modelType, marketData, settings)
runAIAnalysis(modelType, answer, apiKey) ==
    CASE modelType = "GEMINI" -> analyzeWithGemini(answer)
      [] modelType = "OPENAI" -> analyzeWithOpenAI(answer, apiKey)
      [] modelType = "POE"    -> analyzeWithPoe(answer, apiKey)
      [] OTHER                -> AiThrown

----------------------------------------------------------------------------
(* The parts before they are used *)

SnapUnused ==
    /\ assembler = "none"
    /\ snapPc = "idle"
    /\ stage = 0
    /\ snapshots = <<>>
    /\ orderBook = NoBook
    /\ calls = [k \in Calls |-> "notstarted"]
    /\ proxyOf = [k \in Calls |-> 0]
    /\ slots = [k \in Calls |-> Pending]
    /\ snapResult = NoAggregate

FetchUnused ==
    /\ fetchPc = "idle"
    /\ path = "candles"
    /\ retryCount = DefaultRetry
    /\ attempt = 0
    /\ lastError = NoError
    /\ timeoutId = FALSE
    /\ requests = <<>>
    /\ fetchResult = NoError
    /\ backoffMs = 0
    /\ failLogged = FALSE

CalcUnused ==
    /\ calcFn = "none"
    /\ calcIn = 0
    /\ calcPc = "idle"
    /\ calcOut = 0

LogUnused ==
    /\ logVariant = "none"
    /\ logs = <<>>
    /\ nLogs = 0

AppUnused ==
    /\ appVariant = "none"
    /\ marketData = 0
    /\ analysis = 0
    /\ loading = FALSE
    /\ isAutoRunning = FALSE
    /\ error = "none"
    /\ settings = [wecomWebhook |-> FALSE, rev |-> 0]
    /\ progress = 0
    /\ lastLog = "none"
    /\ timerRef = 0
    /\ timers = {}
    /\ effectDeps = CurrentDeps
    /\ cycles = [c \in CycleIds |-> NoCycle]
    /\ nCycles = 0
    /\ finished = NoneFinished

----------------------------------------------------------------------------
(* SpecSnap: one call of getFullMarketSnapshot, either variant *)

InitSnap ==
    /\ assembler \in {"sequential", "parallel"}
    /\ snapPc = "idle"
    /\ stage = 0
    /\ snapshots = <<>>
    /\ orderBook = NoBook
    /\ calls = [k \in Calls |-> "notstarted"]
    /\ proxyOf = [k \in Calls |-> 0]
    /\ slots = [k \in Calls |-> Pending]
    /\ snapResult = NoAggregate
    /\ FetchUnused
    /\ AppUnused
    /\ CalcUnused
    /\ LogUnused

NextSnap ==
    \/ SeqCall
    \/ BackoffElapses
    \/ TimeoutFires
    \/ FetchRejects
    \/ StatusNotOk
    \/ HeadersArrive
    \/ BodyRejects
    \/ BodyArrives
    \/ CandlesFetched
    \/ BooksFetched
    \/ TickerFetched
    \/ FetchThrew
    \/ JitterElapses
    \/ ParCall
    \/ \E k \in Calls : ProxyFails(k)
    \/ \E k \in Calls : ProxyAnswers(k)

SpecSnap == InitSnap /\ [][NextSnap]_vars

----------------------------------------------------------------------------
(* SpecFetch: one invocation, any path, any retryCount in 0..MaxRetry *)

InitFetch ==
    /\ fetchPc = "idle"
    /\ path \in Paths
    /\ retryCount \in 0..MaxRetry
    /\ attempt = 0
    /\ lastError = NoError
    /\ timeoutId = FALSE
    /\ requests = <<>>
    /\ fetchResult = NoError
    /\ backoffMs = 0
    /\ failLogged = FALSE
    /\ SnapUnused
    /\ AppUnused
    /\ CalcUnused
    /\ LogUnused

NextFetch ==
    \/ FetchCall
    \/ BackoffElapses
    \/ TimeoutFires
    \/ FetchRejects
    \/ StatusNotOk
    \/ HeadersArrive
    \/ BodyRejects
    \/ BodyArrives

SpecFetch == InitFetch /\ [][NextFetch]_vars

----------------------------------------------------------------------------
(* SpecApp: the App component after mount, any variant; getFullMarketSnapshot,  *)
(* runAIAnalysis and sendToWeCom are awaited calls that resolve or reject       *)

InitApp ==
    /\ appVariant \in {"v1", "v21", "v3"}
    /\ marketData = 0
    /\ analysis = 0
    /\ loading = FALSE
    /\ isAutoRunning = FALSE
    /\ error = "none"
    /\ settings \in {st \in SettingsSet : st.rev = 0}
    /\ progress = 0
    /\ lastLog = "none"
    /\ timerRef = 0
    /\ timers = {}
    /\ effectDeps = CurrentDeps      \* the effect ran once at mount, auto-run off
    /\ cycles = [c \in CycleIds |-> NoCycle]
    /\ nCycles = 0
    /\ finished = NoneFinished
    /\ FetchUnused
    /\ SnapUnused
    /\ CalcUnused
    /\ LogUnused

NextApp ==
    \/ ManualClick
    \/ ToggleAutoRun
    \/ ChangeSettings
    \/ RunEffect
    \/ TimerFires
    \/ \E c \in CycleIds : MarketResolves(c)
    \/ \E c \in CycleIds : MarketRejects(c)
    \/ \E c \in CycleIds : AIResolves(c)
    \/ \E c \in CycleIds : AIRejects(c)
    \/ \E c \in CycleIds : WebhookResolves(c)
    \/ \E c \in CycleIds : WebhookRejects(c)

SpecApp == InitApp /\ [][NextApp]_vars

----------------------------------------------------------------------------
(* SpecCalc: one call of the flow estimate, of an indicator or of              *)
(* runAIAnalysis, on arguments drawn from bounded sets                        *)

Prices == {Num(1), Num(3), Rat(5, 2)}

ShortSeries == UNION {[1..n -> Prices] : n \in 1..MaxLen}

\* series as long as the default periods and longer, a pattern of two prices
\* repeated
LongSeries ==
    { [j \in 1..n |-> pat[((j - 1) % 2) + 1]] :
          pat \in [1..2 -> Prices], n \in {BollingerPeriod, BollingerPeriod + 1} }

Periods == 1..MaxPeriod

Volumes == {Num(0), Num(1000), Rat(161, 2)}

Changes ==
    {Num(-100), Num(-40), Num(-20), Rat(-25, 2), Num(0), Rat(25, 2), Num(20),
     Num(25), Num(50)}

FlowInputs == [totalVol : Volumes, priceChange : Changes]
RsiInputs == [data : ShortSeries \cup LongSeries, period : Periods \cup {RsiPeriod}]
EmaInputs == [data : ShortSeries, period : Periods]
BollingerInputs ==
    [data : ShortSeries \cup LongSeries, period : Periods \cup {BollingerPeriod}]
AiInputs ==
    [modelType : AIModelTypes \cup {"OTHER"}, apiKey : BOOLEAN, answer : Answers]

InputsOf(fn) ==
    CASE fn = "flow"      -> FlowInputs
      [] fn = "rsi"       -> RsiInputs
      [] fn = "ema"       -> EmaInputs
      [] fn = "bollinger" -> BollingerInputs
      [] OTHER            -> AiInputs

InitCalc ==
    /\ calcFn \in {"flow", "rsi", "ema", "bollinger", "ai"}
    /\ calcIn \in InputsOf(calcFn)
    /\ calcPc = "idle"
    /\ calcOut = 0
    /\ FetchUnused
    /\ SnapUnused
    /\ AppUnused
    /\ LogUnused

Returns(v) ==
    /\ calcPc' = "returned"
    /\ calcOut' = v
    /\ UNCHANGED <<calcFn, calcIn>>
    /\ UNCHANGED <<fvars, svars, avars, lvars>>

CallFlowEstimate ==
    /\ calcFn = "flow" /\ calcPc = "idle"
    /\ Returns(FlowEstimate(calcIn.totalVol, calcIn.priceChange))

CallRSI ==
    /\ calcFn = "rsi" /\ calcPc = "idle"
    /\ Returns(calculateRSI(calcIn.data, calcIn.period))

CallEMA ==
    /\ calcFn = "ema" /\ calcPc = "idle"
    /\ Returns(calculateEMA(calcIn.data, calcIn.period))

CallBollinger ==
    /\ calcFn = "bollinger" /\ calcPc = "idle"
    /\ Returns(calculateBollinger(calcIn.data, calcIn.period))

CallAI ==
    /\ calcFn = "ai" /\ calcPc = "idle"
    /\ LET r == runAIAnalysis(calcIn.modelType, calcIn.answer, calcIn.apiKey)
       IN /\ calcPc' = r.pc
          /\ calcOut' = r.value
    /\ UNCHANGED <<calcFn, calcIn>>
    /\ UNCHANGED <<fvars, svars, avars, lvars>>

NextCalc ==
    \/ CallFlowEstimate
    \/ CallRSI
    \/ CallEMA
    \/ CallBollinger
    \/ CallAI

SpecCalc == InitCalc /\ [][NextCalc]_vars

----------------------------------------------------------------------------
(* SpecLog: the logs state of the App component under addLog and clearLogs *)

LogVariants == {"v21", "v3"}

\* prev.slice(-149) in v3, prev.slice(-99) in v2.1: how many entries are kept
LogKeep(v) == IF v = "v3" THEN 149 ELSE 99

\* prev.slice(-k), k >= 1
MutSliceLast(prev, k) ==
    SubSeq(prev, 1, IF Len(prev) > k THEN k ELSE Len(prev))
SliceLast(prev, k) ==
    SubSeq(prev, IF Len(prev) > k THEN Len(prev) - k + 1 ELSE 1, Len(prev))

InitLog ==
    /\ logVariant \in LogVariants
    /\ logs = <<>>
    /\ nLogs = 0
    /\ FetchUnused
    /\ SnapUnused
    /\ AppUnused
    /\ CalcUnused

\* addLog(message, level): setLogs(prev => [...prev.slice(-k), newLog])
AddLog ==
    /\ logVariant \in LogVariants
    /\ nLogs < MaxLogs
    /\ nLogs' = nLogs + 1
    /\ logs' = SliceLast(logs, LogKeep(logVariant)) \o <<nLogs'>>
    /\ UNCHANGED logVariant
    /\ UNCHANGED <<fvars, svars, avars, cvars>>

\* clearLogs(): setLogs([])
ClearLogs ==
    /\ logVariant \in LogVariants
    /\ logs' = <<>>
    /\ UNCHANGED <<logVariant, nLogs>>
    /\ UNCHANGED <<fvars, svars, avars, cvars>>

NextLog ==
    \/ AddLog
    \/ ClearLogs

SpecLog == InitLog /\ [][NextLog]_vars

----------------------------------------------------------------------------
(* Properties of getFullMarketSnapshot (SpecSnap) *)

\* C1: getFullMarketSnapshot is all-or-nothing. It returns an aggregate only if
\* every one of the six upstream calls succeeded; as soon as one call has failed
\* after exhausting its attempts the call has thrown, the caller holds neither an
\* aggregate nor any snapshot built so far, and in the sequential variant no
\* later upstream call is started.
C1_AllOrNothing ==
    /\ snapPc = "returned" =>
          /\ \A k \in Calls : calls[k] = "ok"
          /\ snapResult.kind = "aggregate"
    /\ (\E k \in Calls : calls[k] = "failed") => snapPc = "thrown"
    /\ snapPc # "returned" =>
          /\ snapResult.kind # "aggregate"
          /\ snapResult.snapshots = <<>>
    /\ (assembler = "sequential" /\ snapPc = "thrown") =>
          /\ fetchPc = "idle"
          /\ \A k \in Calls : k > stage => calls[k] = "notstarted"

\* the order-book call fails after the four candle calls succeeded and their
\* snapshots were built
C1_Witness ==
    /\ assembler = "sequential"
    /\ snapPc = "thrown"
    /\ calls[BookCall] = "failed"
    /\ \A k \in 1..Len(Timeframes) : calls[k] = "ok"
    /\ Len(snapshots) = Len(Timeframes)
    /\ snapResult = Failure

\* C7: on success getFullMarketSnapshot returns exactly one snapshot per
\* configured timeframe, in the configured order '15m', '1h', '4h', '1d', in the
\* sequential and in the parallel variant.
C7_SnapshotsInConfiguredOrder ==
    snapPc = "returned" =>
       /\ Len(snapResult.snapshots) = 4
       /\ \A j \in 1..4 : snapResult.snapshots[j].timeframe = Timeframes[j]
       /\ Timeframes = <<"15m", "1h", "4h", "1d">>

\* the parallel variant returns its four snapshots, '15m' first
C7_Witness ==
    /\ assembler = "parallel"
    /\ snapPc = "returned"
    /\ Len(snapResult.snapshots) = 4
    /\ snapResult.snapshots[1].timeframe = "15m"

----------------------------------------------------------------------------
(* Properties of fetchWithRetry (SpecFetch) *)

\* C2: if every attempt of an invocation fails, the invocation issues exactly
\* retryCount + 1 requests and then fails; it returns no value.
C2_ExhaustedAfterRetryCountPlusOne ==
    /\ fetchPc = "thrown" =>
          /\ Len(requests) = retryCount + 1
          /\ fetchResult.kind \in ErrorKinds
    /\ lastError.attempt = retryCount =>
          /\ fetchPc = "thrown"
          /\ Len(requests) = retryCount + 1

\* every relay answers HTTP 500 under the default budget: 4 requests, then failure
C2_Witness ==
    /\ fetchPc = "thrown"
    /\ retryCount = DefaultRetry
    /\ Len(requests) = 4
    /\ fetchResult = Err(3, "status")

\* C3: every invocation of fetchWithRetry terminates whatever the relays do: as
\* long as it has neither returned nor thrown, a timer of its own (the backoff
\* wait or the attempt's timeout) is pending and will move it on, also when the
\* relay never answers or stalls before the body is complete.
C3_EveryAttemptBoundedByTimer ==
    fetchPc \in {"backoff", "headers", "body"} => ENABLED TimerStep

\* C4: when every attempt fails, the error the invocation fails with is the one
\* the last attempt made was caught with, not an earlier one and not a generic
\* one.
C4_ThrowsLastAttemptsError ==
    fetchPc = "thrown" =>
       /\ fetchResult.attempt = retryCount
       /\ fetchResult.kind \in ErrorKinds

\* the last of four failed attempts ends on an exchange error code
C4_Witness ==
    /\ fetchPc = "thrown"
    /\ retryCount = DefaultRetry
    /\ fetchResult = Err(DefaultRetry, "okx")

----------------------------------------------------------------------------
(* Properties of the App component (SpecApp) *)

\* C5: at most one acquisition cycle (one run of fetchDataAndAnalyze) is in
\* flight at any time: a manual run, a firing of the interval timer or switching
\* auto-run on while a cycle is in flight starts no second cycle.
C5_AtMostOneCycleInFlight == Cardinality(InFlight) <= 1

\* C6: once the auto-run effect has run for the current render, exactly one
\* interval timer is live when auto-run is on and none when it is off; so with
\* auto-run off there is no timer whose firing could start a cycle.
C6_OneTimerIffAutoRun ==
    ~EffectPending =>
       /\ isAutoRunning => Cardinality(timers) = 1 /\ timerRef \in {t.id : t \in timers}
       /\ ~isAutoRunning => timers = {} /\ ~ENABLED TimerFires

\* auto-run is on after a settings change and a completed cycle; the timer that
\* is live is not the first one that was set
C6_Witness ==
    /\ ~EffectPending
    /\ isAutoRunning
    /\ Cardinality(timers) = 1
    /\ timerRef = 2
    /\ settings.rev = 1
    /\ finished.cycle # 0

\* C8: the step in which a cycle's webhook delivery fails, after its AI analysis
\* succeeded, changes neither marketData nor analysis (in v3, where cycles do
\* not overlap, they are this cycle's), resets loading, and reports the failure
\* as a webhook-typed notice (v1) or a warning log entry (v2.1, v3) without
\* storing a failure of the cycle.
C8_WebhookFailureKeepsCycle ==
    [][\A c \in CycleIds :
          (cycles[c].pc = "webhook" /\ finished' = [cycle |-> c, outcome |-> "webhook_failed"]) =>
             /\ marketData' = marketData /\ marketData # 0
             /\ analysis' = analysis /\ analysis # 0
             /\ appVariant = "v3" => marketData' = c /\ analysis' = c
             /\ ~loading'
             /\ progress' = 0
             /\ cycles'[c].pc = "done"
             /\ IF appVariant = "v1"
                THEN error' = "webhook"
                ELSE error' = error /\ lastLog' = "webhook_warn"]_vars

\* a cycle ended on a failed webhook delivery: its data and its analysis are the
\* current results and loading is reset
C8_Witness ==
    /\ finished.outcome = "webhook_failed"
    /\ marketData = finished.cycle
    /\ analysis = finished.cycle
    /\ ~loading
    /\ error \in {"none", "webhook"}

\* C9: the step in which a cycle fails in data acquisition changes neither
\* marketData nor analysis, the step in which it fails in the AI call does not
\* change analysis, and no step at all sets a stored marketData or analysis
\* back to null.
C9_FailureKeepsLastResults ==
    [][/\ \A c \in CycleIds :
            /\ (cycles[c].pc = "market" /\ cycles'[c].pc = "done") =>
                  marketData' = marketData /\ analysis' = analysis
            /\ (cycles[c].pc = "ai" /\ cycles'[c].pc = "done"
                                    /\ finished'.outcome = "ai_failed") =>
                  analysis' = analysis
       /\ marketData # 0 => marketData' # 0
       /\ analysis # 0 => analysis' # 0]_vars

\* the second cycle failed in data acquisition; the results of the first are
\* still stored
C9_Witness ==
    /\ finished = [cycle |-> 2, outcome |-> "market_failed"]
    /\ marketData = 1
    /\ analysis = 1
    /\ error # "none"

\* C10: the aggregate a cycle acquired is stored as marketData in the step that
\* starts the AI call, and the step in which that cycle's AI call or webhook
\* post fails leaves marketData as it is (in v3, where cycles do not overlap,
\* it still is this cycle's aggregate).
C10_AcquiredAggregateKept ==
    [][\A c \in CycleIds :
          /\ (cycles[c].pc = "market" /\ cycles'[c].pc = "ai") => marketData' = c
          /\ (/\ cycles[c].pc \in {"ai", "webhook"}
              /\ finished' = [cycle |-> c, outcome |-> finished'.outcome]
              /\ finished'.outcome \in {"ai_failed", "webhook_failed"}) =>
                /\ marketData' = marketData
                /\ marketData' # 0
                /\ appVariant = "v3" => marketData' = c]_vars

\* the second cycle's AI call failed: its aggregate is stored, next to the
\* analysis of the first cycle
C10_Witness ==
    /\ finished = [cycle |-> 2, outcome |-> "ai_failed"]
    /\ marketData = 2
    /\ analysis = 1

\* C11: the step in which a cycle ends in failure leaves an error whose kind
\* names the phase that failed: "market" for data acquisition, "ai" for the AI
\* call, "webhook" for the notification.
C11_ErrorKindNamesPhase ==
    [][\A c \in CycleIds :
          /\ finished' = [cycle |-> c, outcome |-> "market_failed"]
                /\ cycles[c].pc = "market" => error' = "market"
          /\ finished' = [cycle |-> c, outcome |-> "ai_failed"]
                /\ cycles[c].pc = "ai" => error' = "ai"
          /\ finished' = [cycle |-> c, outcome |-> "webhook_failed"]
                /\ cycles[c].pc = "webhook" => error' = "webhook"]_vars

----------------------------------------------------------------------------
(* Properties of the candle sequences and the flow estimate (SpecSnap) *)

\* C12: in the sequential (OKX) variant, when a candle response lists its rows
\* newest first with strictly decreasing timestamps, the snapshot built from it
\* has a candle sequence strictly increasing by timestamp, as long as the
\* response, in which every row of the response occurs (and so occurs once).
C12_CandlesOldestFirst ==
    [][(/\ assembler = "sequential"
        /\ snapPc = "fetch" /\ fetchPc = "returned" /\ stage <= Len(Timeframes)
        /\ fetchResult.kind = "array"
        /\ Len(fetchResult.rows) > 0
        /\ \A i \in 1..(Len(fetchResult.rows) - 1) :
              ParseInt(fetchResult.rows[i].ts) > ParseInt(fetchResult.rows[i + 1].ts))
       => /\ Len(snapshots') = stage
          /\ LET rows == fetchResult.rows
                 kline == snapshots'[stage].kline
             IN /\ Len(kline) = Len(rows)
                /\ \A j \in 1..(Len(kline) - 1) :
                      kline[j].timestamp < kline[j + 1].timestamp
                /\ \A i \in 1..Len(rows) : \E j \in 1..Len(kline) :
                      /\ kline[j].timestamp = ParseInt(rows[i].ts)
                      /\ kline[j].close = ParseFloat(rows[i].close)]_vars

\* the first snapshot was built from the response whose timestamps are "10", "9"
C12_Witness ==
    /\ assembler = "sequential"
    /\ snapPc = "jitter"
    /\ stage = 1
    /\ Len(snapshots) = 1
    /\ snapshots[1].kline[1].timestamp = 9
    /\ snapshots[1].kline[2].timestamp = 10

\* C13: every snapshot of a returned aggregate has at least one candle and its
\* price is the close of its last candle; whenever a candle fetch succeeded,
\* either a snapshot with these two properties was built from it or the call
\* of getFullMarketSnapshot has failed without a snapshot for it; a response of
\* zero rows is of the second kind.
C13_PriceIsLastClose ==
    [][/\ snapPc' = "returned" =>
             \A j \in 1..Len(snapResult'.snapshots) :
                LET sn == snapResult'.snapshots[j]
                IN Len(sn.kline) > 0 /\ sn.price = sn.kline[Len(sn.kline)].close
       /\ \A k \in 1..Len(Timeframes) :
             (calls[k] = "inflight" /\ calls'[k] = "ok") =>
                LET built == IF assembler = "sequential"
                             THEN Len(snapshots') = Len(snapshots) + 1
                             ELSE slots'[k].state = "fulfilled"
                    sn == IF assembler = "sequential" THEN snapshots'[k] ELSE slots'[k].value
                IN IF built
                   THEN Len(sn.kline) > 0 /\ sn.price = sn.kline[Len(sn.kline)].close
                   ELSE /\ snapPc' = "thrown"
                        /\ snapResult' = Failure
                        /\ snapshots' = snapshots
       /\ (/\ assembler = "sequential"
           /\ snapPc = "fetch" /\ fetchPc = "returned" /\ stage <= Len(Timeframes)
           /\ fetchResult.kind = "array" /\ fetchResult.rows = <<>>)
          => snapPc' = "thrown" /\ snapshots' = snapshots /\ snapResult' = Failure]_vars

\* the second candle fetch succeeded, no snapshot was built from it and the
\* call has failed
C13_Witness ==
    /\ assembler = "sequential"
    /\ snapPc = "thrown"
    /\ stage = 2
    /\ calls[2] = "ok"
    /\ Len(snapshots) = 1
    /\ snapshots[1].price = Rat(15, 2)

\* C14: the flow estimate of every returned aggregate has buyVolume + sellVolume
\* equal to the 24 h volume of the ticker it was computed from and netInflow
\* equal to buyVolume - sellVolume (in exact arithmetic).
C14_FlowSplitsTotalVolume ==
    [][snapPc' = "returned" /\ snapPc # "returned" =>
          LET inflow == snapResult'.inflow
              total == RAdd(inflow.buyVolume, inflow.sellVolume)
          IN /\ inflow.netInflow = RSub(inflow.buyVolume, inflow.sellVolume)
             /\ IF assembler = "sequential"
                THEN total = ParseFloatOrZero(fetchResult.rows[1].vol24h)
                ELSE \E d \in RelayAnswers(TickerCall) :
                        /\ d.kind = "object"
                        /\ total = ParseFloatOrZero(d.rows[1].volume)]_vars

\* an aggregate was returned for a ticker of volume 80.5 whose price fell by
\* 12.5 %: 30.1875 bought, 50.3125 sold
C14_Witness ==
    /\ snapPc = "returned"
    /\ snapResult.kind = "aggregate"
    /\ snapResult.inflow.buyVolume = Rat(483, 16)
    /\ snapResult.inflow.sellVolume = Rat(805, 16)
    /\ snapResult.inflow.netInflow = Rat(-322, 16)

----------------------------------------------------------------------------
(* Properties of the flow estimate, the indicators and runAIAnalysis (SpecCalc) *)

\* C15: the flow estimate of total volume V and 24 h change c has buyVolume =
\* V * clamp(0.5 + c/100, 0.3, 0.7): between 0.3 V and 0.7 V when V >= 0,
\* 0.5 V at c = 0, 0.7 V for every c >= 20; V = 1000 gives 500/500/0 at c = 0
\* and 700/300/400 at c = 50.
C15_BuyShareClamped ==
    (calcFn = "flow" /\ calcPc = "returned") =>
       LET V == calcIn.totalVol
           c == calcIn.priceChange
           buy == calcOut.buyVolume
           share == RAdd(Rat(1, 2), RDiv(c, Num(100)))
       IN /\ RLe(Num(0), V) => RLe(RMul(Rat(3, 10), V), buy) /\ RLe(buy, RMul(Rat(7, 10), V))
          /\ buy = IF RLe(share, Rat(3, 10)) THEN RMul(Rat(3, 10), V)
                   ELSE IF RLe(Rat(7, 10), share) THEN RMul(Rat(7, 10), V)
                   ELSE RMul(share, V)
          /\ c = Num(0) => buy = RMul(Rat(1, 2), V)
          /\ RLe(Num(20), c) => buy = RMul(Rat(7, 10), V)
          /\ (V = Num(1000) /\ c = Num(0)) =>
                calcOut = [netInflow |-> Num(0), buyVolume |-> Num(500),
                           sellVolume |-> Num(500)]
          /\ (V = Num(1000) /\ c = Num(50)) =>
                calcOut = [netInflow |-> Num(400), buyVolume |-> Num(700),
                           sellVolume |-> Num(300)]

\* the estimate for volume 1000 and a change of 50 %: the share is clamped
C15_Witness ==
    /\ calcFn = "flow" /\ calcPc = "returned"
    /\ calcIn = [totalVol |-> Num(1000), priceChange |-> Num(50)]
    /\ calcOut.buyVolume = Num(700)

\* C16: calculateRSI(data, period), data non-empty and period >= 1, returns a
\* value in [0, 100]: 50 when data has fewer than period + 1 elements, 100 when
\* none of the last period differences is negative, and otherwise
\* 100 - 100/(1 + avgGain/avgLoss), the averages taken over these differences.
C16_RsiInRange ==
    (calcFn = "rsi" /\ calcPc = "returned") =>
       LET data == calcIn.data
           period == calcIn.period
           n == Len(data)
           diff == [i \in 1..period |-> RSub(data[n - period + i], data[n - period + i - 1])]
           gain == [i \in 1..period |-> RMax(diff[i], Num(0))]
           loss == [i \in 1..period |-> RMax(RSub(Num(0), diff[i]), Num(0))]
           avgGain == RDiv(SeqSum(gain), Num(period))
           avgLoss == RDiv(SeqSum(loss), Num(period))
       IN /\ RLe(Num(0), calcOut) /\ RLe(calcOut, Num(100))
          /\ n < period + 1 => calcOut = Num(50)
          /\ n >= period + 1 =>
                IF \A i \in 1..period : RLe(Num(0), diff[i])
                THEN calcOut = Num(100)
                ELSE calcOut = RSub(Num(100),
                                    RDiv(Num(100), RAdd(Num(1), RDiv(avgGain, avgLoss))))

\* gains of 2 and losses of 1/2 over the last two differences: RSI 80
C16_Witness ==
    /\ calcFn = "rsi" /\ calcPc = "returned"
    /\ calcIn = [data |-> <<Num(1), Num(3), Rat(5, 2)>>, period |-> 2]
    /\ calcOut = Num(80)

\* C17: calculateEMA(data, period) with period >= 1 and at least period
\* elements lies between the least and the greatest element of data.
C17_EmaWithinRange ==
    (calcFn = "ema" /\ calcPc = "returned" /\ Len(calcIn.data) >= calcIn.period) =>
       /\ \E i \in 1..Len(calcIn.data) : RLe(calcIn.data[i], calcOut)
       /\ \E i \in 1..Len(calcIn.data) : RLe(calcOut, calcIn.data[i])

\* the average of 1, 3, 1 with period 2 is 13/9, strictly inside the range
C17_Witness ==
    /\ calcFn = "ema" /\ calcPc = "returned"
    /\ calcIn = [data |-> <<Num(1), Num(3), Num(1)>>, period |-> 2]
    /\ calcOut = Rat(13, 9)

\* C18: calculateBollinger(data, period), data non-empty, of any length, returns
\* upper >= middle >= lower with upper - middle = middle - lower; in particular
\* for the default period 20 and data shorter than 20.
C18_BandsOrdered ==
    (calcFn = "bollinger" /\ calcPc = "returned") =>
       /\ RLe(calcOut.middle, calcOut.upper)
       /\ RLe(calcOut.lower, calcOut.middle)
       /\ RSub(calcOut.upper, calcOut.middle) = RSub(calcOut.middle, calcOut.lower)

\* period 20 on a series of three prices: the bands are apart
C18_Witness ==
    /\ calcFn = "bollinger" /\ calcPc = "returned"
    /\ calcIn.period = BollingerPeriod
    /\ Len(calcIn.data) = 3
    /\ RLt(calcOut.middle, calcOut.upper)
    /\ RLt(calcOut.lower, calcOut.middle)

\* C19: every value runAIAnalysis returns is an object with sentiment Bullish,
\* Bearish or Neutral, an analysis string and a strategy with action LONG, SHORT
\* or WAIT and the fields leverage, entry, tp, sl, validity; for any other
\* answer of the provider the call throws.
C19_ShapeValidated ==
    (calcFn = "ai" /\ calcPc = "returned") =>
       /\ calcOut.type = "object"
       /\ calcOut.sentiment \in {"Bullish", "Bearish", "Neutral"}
       /\ calcOut.analysis = "string"
       /\ calcOut.strategy.present
       /\ calcOut.strategy.action \in {"LONG", "SHORT", "WAIT"}
       /\ calcOut.strategy.fields = StrategyFields

----------------------------------------------------------------------------
(* Properties of fetchWithRetry, continued (SpecFetch) *)

\* C20: fetchWithRetry returns only in a step that reads the body of a response
\* with success status, the body being JSON whose code is the string "0", and
\* what it returns is that body's data field; a response that is rejected,
\* has another status, or whose body fails a check ends the attempt as failed:
\* the error is recorded for this attempt and the next attempt, if the budget
\* has one, follows.
C20_ReturnsOnlyCheckedPayload ==
    [][/\ (fetchPc' = "returned" /\ fetchPc # "returned") =>
             /\ fetchPc = "body"
             /\ \E b \in Bodies(path) :
                   b.json /\ b.code = "0" /\ fetchResult' = b.data
             /\ fetchResult' # Unchecked
             /\ attempt' = attempt /\ requests' = requests
       /\ (fetchPc \in {"headers", "body"} /\ fetchPc' \notin {"headers", "body", "returned"}) =>
             /\ attempt' = attempt + 1
             /\ lastError'.attempt = attempt
             /\ lastError'.kind \in ErrorKinds
             /\ fetchPc' = IF attempt + 1 <= retryCount THEN "backoff" ELSE "thrown"
             /\ fetchPc' = "thrown" => fetchResult' = lastError']_vars

\* the first attempt's body carried an exchange error code, the second
\* attempt's body passed the checks and its rows were returned
C20_Witness ==
    /\ fetchPc = "returned"
    /\ attempt = 1
    /\ lastError = Err(0, "okx")
    /\ Len(requests) = 2
    /\ fetchResult.kind = "array"
    /\ Len(fetchResult.rows) > 0

\* C21: an invocation that has returned issued exactly attempt + 1 requests,
\* attempt being the index of the attempt that succeeded, every earlier attempt
\* having failed; it takes no further step: no request, no backoff wait.
C21_FirstSuccessEndsInvocation ==
    fetchPc = "returned" =>
       /\ Len(requests) = attempt + 1
       /\ attempt > 0 => lastError.attempt = attempt - 1
       /\ attempt = 0 => lastError = NoError
       /\ ~ENABLED FetchStep

\* the third attempt succeeded after two failures: three requests
C21_Witness ==
    /\ fetchPc = "returned"
    /\ retryCount = DefaultRetry
    /\ attempt = 2
    /\ requests = <<0, 1, 2>>

\* C22: the request of attempt i goes through relay i mod 3, so consecutive
\* attempts use different relays, and an invocation with the default budget
\* that fails has tried each of the three relays.
C22_RelayRotation ==
    /\ \A j \in 1..Len(requests) : requests[j] = (j - 1) % 3
    /\ \A j \in 1..(Len(requests) - 1) : requests[j] # requests[j + 1]
    /\ (fetchPc = "thrown" /\ retryCount = DefaultRetry) =>
          {requests[j] : j \in 1..Len(requests)} = 0..(NumProxies - 1)

\* the default budget is used up: relays 0, 1, 2 and 0 again
C22_Witness ==
    /\ fetchPc = "thrown"
    /\ retryCount = DefaultRetry
    /\ requests = <<0, 1, 2, 0>>


\* C23: the request of attempt 0 is issued in the step that invokes
\* fetchWithRetry, with no wait; the request of an attempt i >= 1 is issued only
\* out of the backoff wait that began when attempt i - 1 failed, and the delay of
\* that wait is at least 1000 * i ms and less than 1000 * i + 500 ms
C23_BackoffBeforeRetry ==
    [][ /\ (fetchPc' = "headers" /\ fetchPc # "headers") =>
              IF attempt' = 0
              THEN fetchPc = "idle" /\ backoffMs = 0 /\ backoffMs' = 0
              ELSE /\ fetchPc = "backoff"
                   /\ attempt' = attempt
                   /\ backoffMs >= BackoffBase * attempt'
                   /\ backoffMs < BackoffBase * attempt' + JitterSpan
        /\ (fetchPc' = "backoff" /\ fetchPc # "backoff") =>
              /\ fetchPc \in {"headers", "body"}
              /\ attempt' = attempt + 1
              /\ lastError'.attempt = attempt
              /\ backoffMs' >= BackoffBase * attempt'
              /\ backoffMs' < BackoffBase * attempt' + JitterSpan
      ]_vars

C23_Witness ==
    /\ fetchPc = "headers"
    /\ attempt = 2
    /\ requests = <<0, 1, 2>>
    /\ lastError.attempt = 1
    /\ failLogged


\* C24: in the sequential assembler every upstream call is an invocation of
\* fetchWithRetry of its own: the step that starts a call, whatever the earlier
\* calls of the cycle went through, puts it at attempt 0 on relay 0 with no
\* recorded error and the full budget of retryCount + 1 attempts, and a call
\* fails only after it has issued all of these attempts itself
C24_OwnAttemptBudget ==
    [][ assembler = "sequential" =>
          /\ \A k \in Calls :
                (calls'[k] = "inflight" /\ calls[k] # "inflight") =>
                   /\ fetchPc' = "headers"
                   /\ attempt' = 0
                   /\ requests' = <<0>>
                   /\ lastError' = NoError
                   /\ retryCount' = DefaultRetry
                   /\ path' = PathOf(k)
          /\ (fetchPc' = "thrown" /\ fetchPc # "thrown") =>
                /\ Len(requests') = DefaultRetry + 1
                /\ attempt' = DefaultRetry + 1
      ]_vars

C24_Witness ==
    /\ assembler = "sequential"
    /\ stage = 2
    /\ calls[1] = "ok"
    /\ calls[2] = "inflight"
    /\ failLogged
    /\ fetchPc = "headers"
    /\ attempt = 0
    /\ requests = <<0>>


----------------------------------------------------------------------------
(* Properties of the sequential assembler, continued (SpecSnap) *)

\* C25: in the sequential assembler the six upstream calls run one after another
\* in the order 15m, 1h, 4h, 1d, order book, ticker: the first starts with the
\* cycle, every other one starts out of the delay that follows the completed
\* previous call; at most one call is in flight; and the snapshot of a timeframe,
\* indicators included, is built in the step in which that timeframe's candles
\* have been returned, from the normalized candles
C25_SequentialOrder ==
    [][ assembler = "sequential" =>
          /\ Cardinality({k \in Calls : calls'[k] = "inflight"}) <= 1
          /\ \A k \in Calls : calls'[k] # "notstarted" =>
                \A j \in 1..(k - 1) : calls'[j] = "ok"
          /\ \A k \in Calls :
                (calls'[k] = "inflight" /\ calls[k] # "inflight") =>
                   /\ calls[k] = "notstarted"
                   /\ path' = PathOf(k)
                   /\ fetchPc = "idle"
                   /\ IF k = 1 THEN snapPc = "idle"
                      ELSE snapPc = "jitter" /\ stage = k - 1 /\ calls[k - 1] = "ok"
          /\ Len(snapshots') <= Len(Timeframes)
          /\ \A j \in 1..Len(snapshots') :
                /\ calls'[j] = "ok"
                /\ snapshots'[j].timeframe = Timeframes[j]
          /\ snapshots' # snapshots =>
                /\ snapPc = "fetch" /\ fetchPc = "returned"
                /\ calls[stage] = "inflight"
                /\ Len(snapshots) = stage - 1
                /\ SubSeq(snapshots', 1, stage - 1) = snapshots
                /\ Len(snapshots') = stage
                /\ LET klines == NormalizeOkx(fetchResult.rows)
                       closes == Closes(klines)
                   IN /\ snapshots'[stage].kline = klines
                      /\ snapshots'[stage].indicators =
                            [rsi |-> calculateRSI(closes, RsiPeriod),
                             ema20 |-> calculateEMA(closes, 20),
                             ema50 |-> calculateEMA(closes, 50),
                             macd |-> calculateMACD(closes),
                             bollinger |-> calculateBollinger(closes, BollingerPeriod)]
      ]_vars

C25_Witness ==
    /\ assembler = "sequential"
    /\ stage = TickerCall
    /\ calls[TickerCall] = "inflight"
    /\ \A j \in 1..BookCall : calls[j] = "ok"
    /\ Len(snapshots) = Len(Timeframes)
    /\ Len(snapshots[3].kline) = 3
    /\ fetchPc = "body"


----------------------------------------------------------------------------
(* Properties of the indicators, continued (SpecCalc) *)

\* C26: calculateBollinger(data, period), data non-empty, returns as middle the
\* arithmetic mean of the last min(period, data.length) elements, and as upper
\* and lower that mean plus and minus twice the population standard deviation of
\* these elements, also when data is shorter than period
C26_MiddleIsWindowMean ==
    (calcFn = "bollinger" /\ calcPc = "returned") =>
       LET window == LastN(calcIn.data, calcIn.period)
           n == Len(window)
           mean == RDiv(SeqSum(window), Num(n))
           sq == [i \in 1..n |-> RMul(RSub(window[i], mean), RSub(window[i], mean))]
           stdDev == Sqrt(RDiv(SeqSum(sq), Num(n)))
       IN /\ calcOut.middle = mean
          /\ calcOut.upper = RAdd(mean, RMul(stdDev, Num(2)))
          /\ calcOut.lower = RSub(mean, RMul(stdDev, Num(2)))


----------------------------------------------------------------------------
(* Properties of the App component, continued (SpecApp) *)

\* C27: while auto-run stays on (it was on when the auto-run effect last ran and
\* is on now) no step makes the effect start an acquisition cycle and no step
\* replaces or clears the interval timer: cycles are started by the effect only
\* when auto-run is switched on, and otherwise by timer firings, whatever
\* happens to loading and to the settings
C27_CyclesOnlyBySwitchOnAndTimer ==
    [][ (effectDeps.auto /\ isAutoRunning) =>
           /\ nCycles' > nCycles => cycles'[nCycles'].by # "effect"
           /\ timers' = timers
           /\ timerRef' = timerRef
      ]_vars


\* C28: loading is true exactly while a cycle is in flight (between the start of
\* fetchDataAndAnalyze and its finally block): never false while a cycle is still
\* running, never true when none is
C28_LoadingIffInFlight ==
    appVariant # "none" => (loading <=> InFlight # {})


\* C29 as stated: whenever marketData and analysis are both set they stem from
\* the same cycle
C29_SameCycle ==
    (marketData # 0 /\ analysis # 0) => marketData = analysis

\* C29: analysis changes only in the step in which the AI call of a cycle
\* resolves, and becomes the result of that cycle, computed from the snapshot
\* that cycle fetched; in v3, where cycles do not overlap, marketData holds that
\* same cycle's snapshot at that step. marketData changes only in the step in
\* which the snapshot call of a cycle resolves, which leaves analysis as it was:
\* from then until that cycle's AI call resolves, and for good if it fails,
\* analysis may belong to an earlier cycle than marketData. No failure path
\* touches either.
C29_AnalysisFollowsOwnCycle ==
    [][ /\ analysis' # analysis =>
              \E c \in CycleIds :
                 /\ cycles[c].pc = "ai"
                 /\ analysis' = c
                 /\ marketData' = marketData
                 /\ appVariant = "v3" => marketData' = c
        /\ marketData' # marketData =>
              \E c \in CycleIds :
                 /\ cycles[c].pc = "market"
                 /\ marketData' = c
                 /\ analysis' = analysis
      ]_vars

\* v3: the second cycle's AI call resolved after the first cycle's analysis had
\* been on display next to the second cycle's marketData
C29_Witness ==
    /\ appVariant = "v3"
    /\ marketData = 2
    /\ analysis = 2
    /\ finished = [cycle |-> 2, outcome |-> "ok"]
    /\ ~loading


----------------------------------------------------------------------------
(* Properties of the log panel (SpecLog) *)

\* C30: after any sequence of addLog and clearLogs calls logs holds at most 150
\* entries (100 in v2.1); they are the most recently added entries, in the order
\* they were added, none older than the last clearLogs; addLog appends its entry
\* and, when the buffer is full, drops exactly the oldest one; clearLogs empties
\* the buffer
C30_LogBufferBounded ==
    [][ (logVariant # "none") =>
          LET cap == IF logVariant = "v3" THEN 150 ELSE 100
          IN /\ Len(logs') <= cap
             /\ \A i \in 1..(Len(logs') - 1) : logs'[i + 1] = logs'[i] + 1
             /\ Len(logs') > 0 => logs'[Len(logs')] = nLogs'
             /\ nLogs' = nLogs + 1 =>
                   logs' = (IF Len(logs) = cap THEN Tail(logs) ELSE logs) \o <<nLogs'>>
             /\ nLogs' = nLogs => Len(logs') = 0
      ]_vars

\* v3: 152 entries were added, the two oldest were dropped
C30_Witness ==
    /\ logVariant = "v3"
    /\ nLogs = 152
    /\ Len(logs) = 150
    /\ logs[1] = 3
    /\ logs[150] = 152

====
